---- MODULE Spec2Model ----
(***************************************************************************)
(* A model of the two algorithmic fragments of poldrack/fmritopics:        *)
(*                                                                         *)
(*   - src/fmritopics/get_abstracts.py: the identifier-search stage, the   *)
(*     record-fetch stage with its retry loop, and the two cache files;    *)
(*   - src/fmritopics/analyze_dynamic_topics.py, get_clustered_topics:     *)
(*     the per-level mapping of topic ids to cluster representatives.      *)
(*                                                                         *)
(* The two scripts do not call each other; each has its own specification  *)
(* (RetrievalSpec; ClusterSpec for the levels of given cutoffs, LinearSpec *)
(* for the call with the 'linear' spacing), and the variables of the       *)
(* other script stay at their idle values.                                 *)
(***************************************************************************)
EXTENDS Integers, Naturals, Sequences, FiniteSets, TLC

(***************************************************************************)
(* Bounds of the model.                                                    *)
(***************************************************************************)
\* Number of years of range(1990, end_year + 1) that the model runs over.
NumYears == 2
\* Length of the longest identifier list a search returns for one year.
MaxIds == 2
\* Largest number of levels (cutoffs) of one call of get_clustered_topics.
MaxLevels == 2
\* Largest number of rows of the merge tables of the 'linear' level spacing.
MaxMerges == 3

(***************************************************************************)
(* get_abstracts.py: constants.                                            *)
(***************************************************************************)
start_year == 1990
\* The source sets end_year = 2022; the model keeps NumYears years of it.
end_year == start_year + NumYears - 1
maxtries == 5

Years == start_year..end_year

\* A file that does not exist, and a file holding the pickled value d.
Absent == [exists |-> FALSE, data |-> <<>>]
File(d) == [exists |-> TRUE, data |-> d]
\* Python's None, recorded when an article has no Abstract field.
None == "None"

\* results['IdList'] of one search, as a list of ints: no identifier, one, or
\* the longest list of the model.
IdLists == {[i \in 1..n |-> i] : n \in {0, 1, MaxIds}}

\* The dictionaries the search stage builds: every year of the range is a key.
PmidDicts == [Years -> IdLists]

\* The empty dict pmids = {}.
EmptyDict == [y \in {} |-> <<>>]

\* Entrez.read(handle)['PubmedArticle'] for a request of ids: one article
\* per requested identifier, each with or without an Abstract field.
Responses(ids) ==
    {[i \in 1..Len(ids) |-> [PMID |-> ids[i], Abstract |-> a[i]]] :
        a \in [1..Len(ids) -> {"text", None}]}

\* PMID(pmid, year, abstract) for every article of a response, in order.
ExtractRecords(articles, y) ==
    [i \in 1..Len(articles) |->
        [pmid |-> articles[i].PMID, year |-> y, abstract |-> articles[i].Abstract]]

\* The record lists a previous run can have left in pmid_records.pkl.
CachedRecordLists ==
    {<<>>, ExtractRecords(<<[PMID |-> 1, Abstract |-> None]>>, start_year)}

(***************************************************************************)
(* analyze_dynamic_topics.py, get_clustered_topics: inputs and helpers.    *)
(***************************************************************************)
\* Topic ids of the documents' clusters and ids given to merged clusters.
\* Parent ids are ints of the same id space as the topic ids.
LeafIds == {0, 1, 2}
ParentIds == {10, 11}
AllIds == LeafIds \cup ParentIds

\* Merge distances and cutoffs, in units of 0.05 (0.1 = 2, 0.2 = 4,
\* 0.3 = 6, 0.35 = 7).
DistanceValues == {2, 6}
CutoffValues == {1, 4, 7}

\* The elements of a set of ints as an ascending list.
RECURSIVE Ascending(_)
Ascending(S) ==
    IF S = {} THEN <<>>
    ELSE LET m == CHOOSE x \in S : \A y \in S : x <= y
         IN  <<m>> \o Ascending(S \ {m})

Range(f) == {f[x] : x \in DOMAIN f}

\* A list in the opposite order.
Reverse(q) == [i \in 1..Len(q) |-> q[Len(q) + 1 - i]]

\* One row of hierarchical_topics: the columns the function reads.
MergeRecords ==
    {[Topics |-> Ascending(c), Parent_ID |-> p, Distance |-> d] :
        c \in {x \in SUBSET AllIds : Cardinality(x) = 2},
        p \in ParentIds, d \in DistanceValues}

\* The ids from which `id` is reached by following child -> parent links.
RECURSIVE Below(_, _, _)
Below(rows, id, n) ==
    IF n = 0 THEN {}
    ELSE LET direct == UNION {Range(rows[i].Topics) :
                                 i \in {j \in DOMAIN rows : rows[j].Parent_ID = id}}
         IN  direct \cup UNION {Below(rows, c, n - 1) : c \in direct}

\* The rows form a tree (a forest): every merge has its own parent id, an id
\* is merged at most once, and no id lies below itself.
IsTree(rows) ==
    /\ \A i, j \in DOMAIN rows :
          i # j => /\ rows[i].Parent_ID # rows[j].Parent_ID
                   /\ Range(rows[i].Topics) \cap Range(rows[j].Topics) = {}
    /\ \A i \in DOMAIN rows :
          rows[i].Parent_ID \notin Below(rows, rows[i].Parent_ID, Len(rows))

\* The hierarchical_topics tables of the model, in clustering order.
MergeTables ==
    {rows \in UNION {[1..n -> MergeRecords] : n \in 0..Cardinality(ParentIds)} :
        IsTree(rows)}

\* A Python dict: its keys in insertion order and the value of each key.
Dict(ks, f) == [keys |-> ks, val |-> f]

\* d[k] = v
DictSet(d, k, v) ==
    IF k \in DOMAIN d.val
    THEN Dict(d.keys, [d.val EXCEPT ![k] = v])
    ELSE Dict(Append(d.keys, k),
              [x \in (DOMAIN d.val) \cup {k} |-> IF x = k THEN v ELSE d.val[x]])

\* mapping = {topic: topic for topic in df.topic.unique()}
IdentityMapping(ts) == Dict(ts, [t \in Range(ts) |-> t])

\* Selection with the comparison turned around.
Selection_ge(rows, max_distance) ==
    SelectSeq(rows, LAMBDA r : r.Distance >= max_distance)

\* hierarchical_topics.loc[hierarchical_topics.Distance <= max_distance, :]
Selection(rows, max_distance) ==
    SelectSeq(rows, LAMBDA r : r.Distance <= max_distance)

\* selection.sort_values("Parent_ID"): insertion of each row before the
\* first row with a larger parent id.
RECURSIVE SortByParent(_)
SortByParent(rows) ==
    IF rows = <<>> THEN <<>>
    ELSE LET rest == SortByParent(Tail(rows))
             r == Head(rows)
             before == SelectSeq(rest, LAMBDA x : x.Parent_ID <= r.Parent_ID)
             after == SelectSeq(rest, LAMBDA x : x.Parent_ID > r.Parent_ID)
         IN  before \o <<r>> \o after

\* for topic in row[1].Topics: mapping[topic] = row[1].Parent_ID
RECURSIVE AssignRow(_, _, _)
AssignRow(d, ts, parent) ==
    IF ts = <<>> THEN d
    ELSE AssignRow(DictSet(d, Head(ts), parent), Tail(ts), parent)

\* for row in selection.iterrows(): ...
RECURSIVE AssignRows(_, _)
AssignRows(d, rows) ==
    IF rows = <<>> THEN d
    ELSE AssignRows(AssignRow(d, Head(rows).Topics, Head(rows).Parent_ID),
                    Tail(rows))

\* The mapping of one level before it is resolved.
LevelMapping(ts, rows, max_distance) ==
    AssignRows(IdentityMapping(ts), SortByParent(Selection(rows, max_distance)))

\* PassFrom with "mapping[key] = value" in place of "mapping[key] = mapping[value]".
RECURSIVE PassFrom_novalue(_, _, _)
PassFrom_novalue(i, d, flags) ==
    IF i > Len(d.keys) THEN <<d, flags>>
    ELSE PassFrom_novalue(i + 1, d, [flags EXCEPT ![i] = FALSE])

\* One iteration of "for i, (key, value) in enumerate(mapping.items())", from
\* position i on: the value is read when the key is reached.
RECURSIVE PassFrom(_, _, _)
PassFrom(i, d, flags) ==
    IF i > Len(d.keys) THEN <<d, flags>>
    ELSE LET key == d.keys[i]
             value == d.val[key]
         IN  IF value \in DOMAIN d.val /\ key # value
             THEN PassFrom(i + 1, Dict(d.keys, [d.val EXCEPT ![key] = d.val[value]]),
                           flags)
             ELSE PassFrom(i + 1, d, [flags EXCEPT ![i] = FALSE])

\* any(mappings)
AnyFlag(flags) == \E i \in DOMAIN flags : flags[i]

\* df.topic.map(mapping), by topic.
LevelColumn(ts, d) == [t \in Range(ts) |-> d.val[t]]

VARIABLES
    pc,            \* position of the retrieval script
    pmid_file,     \* data/fmri_pmids.pkl: Absent or File(dict)
    records_file,  \* data/pmid_records.pkl: Absent or File(list)
    pmids,         \* the dict year -> list of identifiers
    pmid_records,  \* the list of PMID tuples
    year,          \* the loop variable of the stage that is running
    tries,         \* failed attempts for the current year
    good_record,   \* the retry loop's flag
    records,       \* the parsed response of the last successful fetch
    searchCalls,   \* history: get_pubmed_query_results calls per year
    fetchCalls,    \* history: Entrez.efetch calls per year
    fetchIds,      \* history: the id lists passed to Entrez.efetch per year
    slept,         \* history: time.sleep(delay) ran since the last efetch call
    pmid_file0,    \* history: pmid_file when the script started
    records_file0, \* history: records_file when the script started
    cpc,                  \* position in get_clustered_topics
    topics,               \* df.topic.unique(), in order
    hierarchical_topics,  \* the rows of the merge table
    max_distances,        \* the cutoff of each level
    index,                \* the level being computed, from 1
    mapping,              \* the dict of the level
    mappings,             \* the list of flags of the resolution loop
    df,                   \* the level_k columns written so far
    resolved,             \* history: the mapping of each level when its loop exited
    nr_levels             \* the argument nr_levels

rvars == <<pc, pmid_file, records_file, pmids, pmid_records, year, tries,
           good_record, records, searchCalls, fetchCalls, fetchIds, slept,
           pmid_file0, records_file0>>

cvars == <<cpc, topics, hierarchical_topics, max_distances, index, mapping,
           mappings, df, resolved, nr_levels>>

vars == <<rvars, cvars>>

\* The values of the variables of the script that is not running.
RetrievalIdle ==
    /\ pc = "idle"
    /\ pmid_file = Absent
    /\ records_file = Absent
    /\ pmids = EmptyDict
    /\ pmid_records = <<>>
    /\ year = start_year
    /\ tries = 0
    /\ good_record = FALSE
    /\ records = <<>>
    /\ searchCalls = [y \in Years |-> 0]
    /\ fetchCalls = [y \in Years |-> 0]
    /\ fetchIds = [y \in Years |-> {}]
    /\ slept = FALSE
    /\ pmid_file0 = Absent
    /\ records_file0 = Absent

ClusterIdle ==
    /\ cpc = "idle"
    /\ topics = <<>>
    /\ hierarchical_topics = <<>>
    /\ max_distances = <<>>
    /\ index = 1
    /\ mapping = Dict(<<>>, EmptyDict)
    /\ mappings = <<>>
    /\ df = <<>>
    /\ resolved = <<>>
    /\ nr_levels = 0

RetrievalInit ==
    /\ pc = "check_pmid_file"
    /\ pmid_file \in {Absent} \cup {File(d) : d \in PmidDicts}
    /\ records_file \in {Absent} \cup {File(r) : r \in CachedRecordLists}
    /\ pmids = EmptyDict
    /\ pmid_records = <<>>
    /\ year = start_year
    /\ tries = 0
    /\ good_record = FALSE
    /\ records = <<>>
    /\ searchCalls = [y \in Years |-> 0]
    /\ fetchCalls = [y \in Years |-> 0]
    /\ fetchIds = [y \in Years |-> {}]
    /\ slept = FALSE
    /\ pmid_file0 = pmid_file
    /\ records_file0 = records_file
    /\ ClusterIdle

\* if os.path.exists(pmid_file): pmids = pickle.load(f)
LoadPmids ==
    /\ pc = "check_pmid_file"
    /\ pmid_file.exists
    /\ pmids' = pmid_file.data
    /\ pc' = "check_records_file"
    /\ UNCHANGED <<pmid_file, records_file, pmid_records, year, tries,
                   good_record, records, searchCalls, fetchCalls, fetchIds,
                   slept, pmid_file0, records_file0>>
    /\ UNCHANGED cvars

\* BeginSearch without the test of the identifier cache.
BeginSearch_always ==
    /\ pc = "check_pmid_file"
    /\ year' = start_year
    /\ pc' = "search"
    /\ UNCHANGED <<pmid_file, records_file, pmids, pmid_records, tries,
                   good_record, records, searchCalls, fetchCalls, fetchIds,
                   slept, pmid_file0, records_file0>>
    /\ UNCHANGED cvars

\* else: for year in range(1990, end_year + 1): (entering the loop)
BeginSearch ==
    /\ pc = "check_pmid_file"
    /\ ~pmid_file.exists
    /\ year' = start_year
    /\ pc' = "search"
    /\ UNCHANGED <<pmid_file, records_file, pmids, pmid_records, tries,
                   good_record, records, searchCalls, fetchCalls, fetchIds,
                   slept, pmid_file0, records_file0>>
    /\ UNCHANGED cvars

\* One iteration of the search loop: the query, pmids[year] = IdList, sleep.
SearchYear ==
    /\ pc = "search"
    /\ year <= end_year
    /\ \E ids \in IdLists :
          pmids' = [y \in (DOMAIN pmids) \cup {year} |->
                       IF y = year THEN ids ELSE pmids[y]]
    /\ searchCalls' = [searchCalls EXCEPT ![year] = @ + 1]
    /\ year' = year + 1
    /\ UNCHANGED <<pc, pmid_file, records_file, pmid_records, tries,
                   good_record, records, fetchCalls, fetchIds, slept,
                   pmid_file0, records_file0>>
    /\ UNCHANGED cvars

\* pickle.dump(pmids, open(pmid_file, 'wb')) after the search loop.
DumpPmids ==
    /\ pc = "search"
    /\ year > end_year
    /\ pmid_file' = File(pmids)
    /\ pc' = "check_records_file"
    /\ UNCHANGED <<records_file, pmids, pmid_records, year, tries,
                   good_record, records, searchCalls, fetchCalls, fetchIds,
                   slept, pmid_file0, records_file0>>
    /\ UNCHANGED cvars

\* if os.path.exists(.../pmid_records.pkl): pmid_records = pickle.load(...)
LoadRecords ==
    /\ pc = "check_records_file"
    /\ records_file.exists
    /\ pmid_records' = records_file.data
    /\ pc' = "done"
    /\ UNCHANGED <<pmid_file, records_file, pmids, year, tries, good_record,
                   records, searchCalls, fetchCalls, fetchIds, slept,
                   pmid_file0, records_file0>>
    /\ UNCHANGED cvars

\* else: pmid_records = []; delay = 2; maxtries = 5; for year, ... in pmids.items()
BeginFetch ==
    /\ pc = "check_records_file"
    /\ ~records_file.exists
    /\ pmid_records' = <<>>
    /\ year' = start_year
    /\ pc' = "year_loop"
    /\ UNCHANGED <<pmid_file, records_file, pmids, tries, good_record,
                   records, searchCalls, fetchCalls, fetchIds, slept,
                   pmid_file0, records_file0>>
    /\ UNCHANGED cvars

\* SkipYear without the continue: an empty year enters the retry loop.
SkipYear_fetch ==
    /\ pc = "year_loop"
    /\ year \in DOMAIN pmids
    /\ Len(pmids[year]) = 0
    /\ good_record' = FALSE
    /\ tries' = 0
    /\ pc' = "try"
    /\ UNCHANGED <<pmid_file, records_file, pmids, pmid_records, year,
                   records, searchCalls, fetchCalls, fetchIds, slept,
                   pmid_file0, records_file0>>
    /\ UNCHANGED cvars

\* if len(pmids_year) == 0: continue
SkipYear ==
    /\ pc = "year_loop"
    /\ year \in DOMAIN pmids
    /\ Len(pmids[year]) = 0
    /\ year' = year + 1
    /\ UNCHANGED <<pc, pmid_file, records_file, pmids, pmid_records, tries,
                   good_record, records, searchCalls, fetchCalls, fetchIds,
                   slept, pmid_file0, records_file0>>
    /\ UNCHANGED cvars

\* good_record = False; tries = 0; while not good_record:
StartYear ==
    /\ pc = "year_loop"
    /\ year \in DOMAIN pmids
    /\ Len(pmids[year]) # 0
    /\ good_record' = FALSE
    /\ tries' = 0
    /\ pc' = "try"
    /\ UNCHANGED <<pmid_file, records_file, pmids, pmid_records, year,
                   records, searchCalls, fetchCalls, fetchIds, slept,
                   pmid_file0, records_file0>>
    /\ UNCHANGED cvars

\* The Entrez.efetch call of one attempt, with id = the year's whole list.
EfetchCall ==
    /\ fetchCalls' = [fetchCalls EXCEPT ![year] = @ + 1]
    /\ fetchIds' = [fetchIds EXCEPT ![year] = @ \cup {pmids[year]}]

\* ExceptHandler giving up two attempts early.
ExceptHandler_early ==
    /\ tries' = tries + 1
    /\ pc' = IF tries + 1 > maxtries - 2 THEN "raised" ELSE "try"

\* except: tries += 1; if tries > maxtries: raise e
ExceptHandler ==
    /\ tries' = tries + 1
    /\ pc' = IF tries + 1 > maxtries THEN "raised" ELSE "try"

\* An attempt in which Entrez.efetch itself raises: the sleep is not reached.
EfetchRaises ==
    /\ pc = "try"
    /\ ~good_record
    /\ EfetchCall
    /\ slept' = FALSE
    /\ ExceptHandler
    /\ UNCHANGED <<pmid_file, records_file, pmids, pmid_records, year,
                   good_record, records, searchCalls, pmid_file0,
                   records_file0>>
    /\ UNCHANGED cvars

\* An attempt in which efetch returns, the sleep runs and Entrez.read raises.
ReadRaises ==
    /\ pc = "try"
    /\ ~good_record
    /\ EfetchCall
    /\ slept' = TRUE
    /\ ExceptHandler
    /\ UNCHANGED <<pmid_file, records_file, pmids, pmid_records, year,
                   good_record, records, searchCalls, pmid_file0,
                   records_file0>>
    /\ UNCHANGED cvars

\* An attempt that succeeds: efetch, sleep, records = Entrez.read(handle),
\* good_record = True.
FetchSucceeds ==
    /\ pc = "try"
    /\ ~good_record
    /\ EfetchCall
    /\ slept' = TRUE
    /\ records' \in Responses(pmids[year])
    /\ good_record' = TRUE
    /\ pc' = "extract"
    /\ UNCHANGED <<pmid_file, records_file, pmids, pmid_records, year, tries,
                   searchCalls, pmid_file0, records_file0>>
    /\ UNCHANGED cvars

\* for i in records['PubmedArticle']: pmid_records.append(PMID(...))
Extract ==
    /\ pc = "extract"
    /\ pmid_records' = pmid_records \o ExtractRecords(records, year)
    /\ year' = year + 1
    /\ pc' = "year_loop"
    /\ UNCHANGED <<pmid_file, records_file, pmids, tries, good_record,
                   records, searchCalls, fetchCalls, fetchIds, slept,
                   pmid_file0, records_file0>>
    /\ UNCHANGED cvars

\* DumpRecords that also saves what was fetched when the run has raised.
DumpRecords_salvage ==
    /\ \/ pc = "year_loop" /\ year \notin DOMAIN pmids
       \/ pc = "raised"
    /\ records_file' = File(pmid_records)
    /\ pc' = "done"
    /\ UNCHANGED <<pmid_file, pmids, pmid_records, year, tries, good_record,
                   records, searchCalls, fetchCalls, fetchIds, slept,
                   pmid_file0, records_file0>>
    /\ UNCHANGED cvars

\* pickle.dump(pmid_records, open(.../pmid_records.pkl, 'wb')) after the loop.
DumpRecords ==
    /\ pc = "year_loop"
    /\ year \notin DOMAIN pmids
    /\ records_file' = File(pmid_records)
    /\ pc' = "done"
    /\ UNCHANGED <<pmid_file, pmids, pmid_records, year, tries, good_record,
                   records, searchCalls, fetchCalls, fetchIds, slept,
                   pmid_file0, records_file0>>
    /\ UNCHANGED cvars

RetrievalNext ==
    \/ LoadPmids
    \/ BeginSearch
    \/ SearchYear
    \/ DumpPmids
    \/ LoadRecords
    \/ BeginFetch
    \/ SkipYear
    \/ StartYear
    \/ EfetchRaises
    \/ ReadRaises
    \/ FetchSucceeds
    \/ Extract
    \/ DumpRecords

(***************************************************************************)
(* get_clustered_topics: the loop over the levels.                         *)
(***************************************************************************)
\* df.topic.unique() for a set of document topics: the order follows the
\* sampled documents; the model takes the ascending and the descending list.
TopicOrders ==
    LET sets == (SUBSET AllIds) \ {{}}
    IN  {Ascending(S) : S \in sets} \cup {Reverse(Ascending(S)) : S \in sets}

ClusterInit ==
    /\ cpc = "level"
    /\ topics \in TopicOrders
    /\ hierarchical_topics \in MergeTables
    /\ max_distances \in UNION {[1..n -> CutoffValues] : n \in 1..MaxLevels}
    /\ index = 1
    /\ mapping = Dict(<<>>, EmptyDict)
    /\ mappings = <<>>
    /\ df = <<>>
    /\ resolved = <<>>
    /\ nr_levels = Len(max_distances)
    /\ RetrievalIdle

\* Lines 282-292: the mapping of the level and mappings = [True for _ in mapping].
BuildMapping ==
    /\ cpc = "level"
    /\ index <= Len(max_distances)
    /\ mapping' = LevelMapping(topics, hierarchical_topics, max_distances[index])
    /\ mappings' = [i \in 1..Len(mapping'.keys) |-> TRUE]
    /\ cpc' = "while"
    /\ UNCHANGED <<topics, hierarchical_topics, max_distances, index, df,
                   resolved, nr_levels>>
    /\ UNCHANGED rvars

\* while any(mappings): one pass of the for loop over mapping.items().
ResolvePass ==
    /\ cpc = "while"
    /\ AnyFlag(mappings)
    /\ mapping' = PassFrom(1, mapping, mappings)[1]
    /\ mappings' = PassFrom(1, mapping, mappings)[2]
    /\ UNCHANGED <<cpc, topics, hierarchical_topics, max_distances, index, df,
                   resolved, nr_levels>>
    /\ UNCHANGED rvars

\* The loop exits; df[f"level_{index+1}"] = df.topic.map(mapping).
WriteLevel ==
    /\ cpc = "while"
    /\ ~AnyFlag(mappings)
    /\ df' = Append(df, LevelColumn(topics, mapping))
    /\ resolved' = Append(resolved, mapping.val)
    /\ index' = index + 1
    /\ cpc' = "level"
    /\ UNCHANGED <<topics, hierarchical_topics, max_distances, mapping, mappings,
                   nr_levels>>
    /\ UNCHANGED rvars

\* return df
Return ==
    /\ cpc = "level"
    /\ index > Len(max_distances)
    /\ cpc' = "returned"
    /\ UNCHANGED <<topics, hierarchical_topics, max_distances, index, mapping,
                   mappings, df, resolved, nr_levels>>
    /\ UNCHANGED rvars

ClusterNext ==
    \/ BuildMapping
    \/ ResolvePass
    \/ WriteLevel
    \/ Return

RetrievalSpec == RetrievalInit /\ [][RetrievalNext]_vars

ClusterSpec == ClusterInit /\ [][ClusterNext]_vars

(***************************************************************************)
(* get_clustered_topics with level_scale = 'linear' (the default): the     *)
(* cutoffs are computed from the merge distances, then the levels follow.  *)
(***************************************************************************)
\* Merge distances of the tables below, in units of 0.05.
LinearDistanceValues == {2, 4, 6}

\* hierarchical_topics.Distance.to_list()
Distances(rows) == [i \in 1..Len(rows) |-> rows[i].Distance]

\* np.array_split(range(n), k): the first n % k chunks hold n // k + 1
\* indices, the others n // k; the chunks follow each other from index 0.
ChunkSize(n, k, c) == (n \div k) + (IF c <= n % k THEN 1 ELSE 0)

RECURSIVE ChunkStart(_, _, _)
ChunkStart(n, k, c) ==
    IF c = 1 THEN 0 ELSE ChunkStart(n, k, c - 1) + ChunkSize(n, k, c - 1)

ArraySplit(n, k) ==
    [c \in 1..k |->
        [i \in 1..ChunkSize(n, k, c) |-> ChunkStart(n, k, c) + i - 1]]

\* The cutoffs without the reversal [::-1].
LinearMaxDistances_unreversed(distances, k) ==
    LET chunks == ArraySplit(Len(distances), k)
    IN  [c \in 1..k |-> distances[chunks[c][Len(chunks[c])] + 1]]

\* [distances[indices[-1]] for indices in np.array_split(...)][::-1]
\* (the indices of the source count from 0).
LinearMaxDistances(distances, k) ==
    LET chunks == ArraySplit(Len(distances), k)
    IN  Reverse([c \in 1..k |-> distances[chunks[c][Len(chunks[c])] + 1]])

\* A merge table of n rows over the topics 0..n: row 1 merges topics 0 and 1
\* into 10, row i merges the cluster of row i - 1 with topic i.
ChainTable(ds) ==
    [i \in 1..Len(ds) |->
        [Topics |-> IF i = 1 THEN <<0, 1>> ELSE <<i, 10 + i - 2>>,
         Parent_ID |-> 10 + i - 1,
         Distance |-> ds[i]]]

LinearTables ==
    {ChainTable(ds) : ds \in UNION {[1..n -> LinearDistanceValues] : n \in 0..MaxMerges}}

LinearInit ==
    /\ cpc = "scale"
    /\ hierarchical_topics \in LinearTables
    /\ topics \in {[i \in 1..(Len(hierarchical_topics) + 1) |-> i - 1],
                   Reverse([i \in 1..(Len(hierarchical_topics) + 1) |-> i - 1])}
    /\ nr_levels \in 1..MaxLevels
    /\ max_distances = <<>>
    /\ index = 1
    /\ mapping = Dict(<<>>, EmptyDict)
    /\ mappings = <<>>
    /\ df = <<>>
    /\ resolved = <<>>
    /\ RetrievalIdle

\* Lines 269 and 274-275 when every chunk of the split holds an index.
LinearLevels ==
    /\ cpc = "scale"
    /\ \A c \in 1..nr_levels : ChunkSize(Len(hierarchical_topics), nr_levels, c) > 0
    /\ max_distances' = LinearMaxDistances(Distances(hierarchical_topics), nr_levels)
    /\ cpc' = "level"
    /\ UNCHANGED <<topics, hierarchical_topics, index, mapping, mappings, df,
                   resolved, nr_levels>>
    /\ UNCHANGED rvars

\* Lines 274-275 with fewer rows than levels: a chunk is empty and
\* indices[-1] raises IndexError.
LinearIndexError ==
    /\ cpc = "scale"
    /\ \E c \in 1..nr_levels : ChunkSize(Len(hierarchical_topics), nr_levels, c) = 0
    /\ cpc' = "raised"
    /\ UNCHANGED <<topics, hierarchical_topics, max_distances, index, mapping,
                   mappings, df, resolved, nr_levels>>
    /\ UNCHANGED rvars

LinearNext ==
    \/ LinearLevels
    \/ LinearIndexError
    \/ BuildMapping
    \/ ResolvePass
    \/ WriteLevel
    \/ Return

LinearSpec == LinearInit /\ [][LinearNext]_vars

(***************************************************************************)
(* Properties of the record-fetch retry loop and of the two caches.        *)
(***************************************************************************)
\* The PMID tuples of a list that carry year y.
RecordsOfYear(recs, y) == SelectSeq(recs, LAMBDA r : r.year = y)

FetchStage == pc \in {"year_loop", "try", "extract", "raised"}

\* C1: when every fetch attempt of a year fails, the run raises after exactly
\* 5 fetch attempts for that year; a 6th attempt is never made.
C1_RaisesAfterFiveAttempts ==
    /\ \A y \in Years : fetchCalls[y] <= 5
    /\ pc = "raised" => fetchCalls[year] = 5

\* C2: for every k < 5, after k failed attempts followed by a successful one
\* the year has had exactly k + 1 fetch calls, the run has not raised (no raise
\* happens before the 5th failure), and the records appended for the year are
\* those extracted from the successful response.
C2_FailThenSucceed ==
    /\ pc = "raised" => tries >= 5
    /\ \A k \in 0..4 :
          (pc = "extract" /\ tries = k) =>
              /\ good_record
              /\ fetchCalls[year] = k + 1
              /\ records \in Responses(pmids[year])
    /\ \A k \in 0..4 :
          (pc = "year_loop" /\ tries = k /\ good_record /\ year - 1 \in DOMAIN pmids
              /\ pmids[year - 1] # <<>>) =>
              /\ fetchCalls[year - 1] = k + 1
              /\ RecordsOfYear(pmid_records, year - 1)
                    = ExtractRecords(records, year - 1)

C2_Witness ==
    /\ pc = "year_loop"
    /\ good_record
    /\ tries = 4
    /\ fetchCalls[year - 1] = 5
    /\ RecordsOfYear(pmid_records, year - 1) # <<>>

\* C7: after a failed fetch attempt the delay is waited before the next
\* attempt: an attempt that follows a failure of the same year is issued only
\* when a sleep has run since the previous attempt.
C7_DelayBetweenAttempts ==
    [][(pc = "try" /\ tries > 0 /\ fetchCalls' # fetchCalls) => slept]_vars

\* C8: when the attempts of a year are exhausted the run aborts: nothing runs
\* after the raise, no later year has been fetched, the record cache file has
\* not been written although records of earlier years were fetched, and the
\* fetch stage leaves the identifier cache as it found it.
C8_AbortIsFatal ==
    [][/\ pc # "raised"
       /\ FetchStage => pmid_file' = pmid_file
       /\ pc' = "raised" =>
             /\ ~records_file'.exists
             /\ pmid_file' = File(pmids')
             /\ \A y \in Years : y > year' => fetchCalls'[y] = 0]_vars

C8_Witness ==
    /\ pc = "raised"
    /\ pmid_records # <<>>
    /\ ~pmid_file0.exists
    /\ ~records_file.exists

\* C9: each stage is all-or-nothing with respect to its own cache. With an
\* identifier cache at the start no search is made and the identifiers are the
\* loaded ones; with a record cache at the start no fetch is made and the
\* records are the loaded ones; without its cache a stage does its full work
\* whatever the state of the other cache.
C9_CacheAllOrNothing ==
    /\ pmid_file0.exists =>
          /\ \A y \in Years : searchCalls[y] = 0
          /\ pmid_file = pmid_file0
          /\ pc # "check_pmid_file" => pmids = pmid_file0.data
    /\ records_file0.exists =>
          /\ \A y \in Years : fetchCalls[y] = 0
          /\ records_file = records_file0
          /\ pc = "done" => pmid_records = records_file0.data
    /\ (~pmid_file0.exists /\ pc \notin {"check_pmid_file", "search"}) =>
          /\ \A y \in Years : searchCalls[y] = 1
          /\ pmid_file = File(pmids)
    /\ (~records_file0.exists /\ pc = "done") =>
          /\ \A y \in Years : pmids[y] # <<>> => fetchCalls[y] >= 1
          /\ records_file = File(pmid_records)

C9_Witness ==
    /\ pc = "done"
    /\ pmid_file0.exists
    /\ ~records_file0.exists
    /\ \E y \in Years : fetchCalls[y] > 0
    /\ \A y \in Years : searchCalls[y] = 0

\* C10: a year with an empty identifier list gets no fetch call and has no
\* record in the record cache the run writes; every fetch call of a year
\* passes the whole identifier list of that year, and a year whose first
\* attempt succeeds is fetched with one call.
C10_EmptyYearSkipped ==
    /\ \A y \in DOMAIN pmids :
          /\ pmids[y] = <<>> => fetchCalls[y] = 0
          /\ fetchIds[y] \subseteq {pmids[y]}
    /\ (pc = "extract" /\ tries = 0) => fetchCalls[year] = 1
    /\ (pc = "done" /\ ~records_file0.exists) =>
          \A y \in Years :
              /\ pmids[y] = <<>> => RecordsOfYear(records_file.data, y) = <<>>
              /\ pmids[y] # <<>> => fetchIds[y] = {pmids[y]}

C10_Witness ==
    /\ pc = "done"
    /\ ~records_file0.exists
    /\ \E y1, y2 \in Years :
          /\ pmids[y1] = <<>>
          /\ Len(pmids[y2]) = MaxIds
          /\ fetchCalls[y2] = 1
          /\ Len(RecordsOfYear(records_file.data, y2)) = MaxIds

(***************************************************************************)
(* Properties of the level mapping of get_clustered_topics.                *)
(***************************************************************************)
\* The resolution loop of the current level has exited.
LoopExited == cpc = "while" /\ ~AnyFlag(mappings)

\* A pass of the loop that is about to run changes the mapping or a flag. The
\* loop is deterministic: a pass that changes neither repeats for ever.
PassMakesProgress ==
    (cpc = "while" /\ AnyFlag(mappings)) =>
        PassFrom(1, mapping, mappings) # <<mapping, mappings>>

\* C3: the resolution loop terminates for every tree of merge records and
\* every set of document topic ids, parent ids among the keys included; so
\* no pass with flags still set leaves the mapping and the flags as they were.
C3_LoopTerminates == PassMakesProgress

\* The merge records of the example, in units of 0.05.
ExampleTable ==
    <<[Topics |-> <<0, 1>>, Parent_ID |-> 10, Distance |-> 2],
      [Topics |-> <<2, 10>>, Parent_ID |-> 11, Distance |-> 6]>>

ExampleAt02 == (0 :> 10) @@ (1 :> 10) @@ (2 :> 2) @@ (10 :> 10) @@ (11 :> 11)
ExampleAt035 == (0 :> 11) @@ (1 :> 11) @@ (2 :> 11) @@ (10 :> 11) @@ (11 :> 11)

\* C5: for the example's merge records, with the document topic ids that give
\* the mapping the keys 0, 1, 2, 10, 11, the level computed at cutoff 0.2 is
\* {0:10, 1:10, 2:2, 10:10, 11:11} and at cutoff 0.35 it is
\* {0:11, 1:11, 2:11, 10:11, 11:11}: the loop exits, with that mapping.
C5_ExampleMappings ==
    (/\ hierarchical_topics = ExampleTable
     /\ {2, 10, 11} \subseteq Range(topics)
     /\ cpc = "while"
     /\ max_distances[index] \in {4, 7}) =>
        /\ PassMakesProgress
        /\ LoopExited =>
              mapping.val = IF max_distances[index] = 4 THEN ExampleAt02
                            ELSE ExampleAt035

Apply(m, x) == IF x \in DOMAIN m THEN m[x] ELSE x

IsDendrogram(ts, rows) ==
    \A i \in DOMAIN rows : \A c \in Range(rows[i].Topics) :
        \/ c \in Range(ts)
        \/ \E j \in DOMAIN rows :
              rows[j].Parent_ID = c /\ rows[j].Distance <= rows[i].Distance

NonDecreasing(ds) == \A i, j \in DOMAIN ds : i <= j => ds[i] <= ds[j]

\* The last indices (from 0) of k contiguous non-empty chunks that cover the
\* indices 0..n-1, one list per way of cutting.
ChunkEnds(n, k) ==
    {e \in [1..k -> 0..(n - 1)] :
        /\ e[k] = n - 1
        /\ \A c \in 1..(k - 1) : e[c] < e[c + 1]}

\* C11: under the 'linear' spacing, with merge distances that never decrease
\* along the merge sequence, the levels go from coarsest to finest: there are
\* nr_levels cutoffs, the cutoff of level_1 is the distance of the last merge
\* record, the cutoff of level k+1 is at most that of level k, the cutoffs are
\* the distances at the last indices of nr_levels contiguous chunks of the
\* merge indices, in reverse, and a later level never has fewer distinct
\* values than an earlier one.
C11_LinearCoarsestFirst ==
    LET ds == Distances(hierarchical_topics)
        n == Len(ds)
    IN  (cpc \in {"level", "while", "returned"} /\ NonDecreasing(ds)) =>
            /\ Len(max_distances) = nr_levels
            /\ max_distances[1] = ds[n]
            /\ \A k \in 1..(nr_levels - 1) : max_distances[k + 1] <= max_distances[k]
            /\ \E e \in ChunkEnds(n, nr_levels) :
                  \A c \in 1..nr_levels :
                      max_distances[nr_levels + 1 - c] = ds[e[c] + 1]
            /\ \A i, j \in 1..Len(df) :
                  i <= j => Cardinality(Range(df[i])) <= Cardinality(Range(df[j]))

C11_Witness ==
    /\ cpc = "returned"
    /\ nr_levels = 2
    /\ Len(hierarchical_topics) = 3
    /\ NonDecreasing(Distances(hierarchical_topics))
    /\ max_distances = <<Distances(hierarchical_topics)[3],
                         Distances(hierarchical_topics)[2]>>
    /\ max_distances[2] < max_distances[1]
    /\ Len(df) = 2
    /\ Cardinality(Range(df[1])) < Cardinality(Range(df[2]))

====
